---------------------------- MODULE Spec2Model ----------------------------
(***************************************************************************)
(* State-machine model of src/EnergMatEquations.py: the three Tk callbacks *)
(* on_equation_selected, on_variable_selected and calculate, the module    *)
(* level state they share (the two comboboxes, the global input_entries,   *)
(* the Entry widgets under input_frame, output_label) and the user events  *)
(* that drive them.                                                        *)
(*                                                                         *)
(* Strings are ASCII transliterations of the source's Unicode names:       *)
(*   rho = U+03C1, nusigtot2 = "nu sigma tot2", sig_p2 = "sigma _p2",      *)
(*   nu = U+03BD, dHsub = "Delta Hsub"; units likewise (g/cm3, ...).       *)
(* The model carries three of the eleven catalog entries (a rational       *)
(* expression, an entry with a variable that has no var_display entry, and *)
(* an entry with an even power); the callbacks treat every entry alike.    *)
(***************************************************************************)
EXTENDS Integers, Sequences, FiniteSets, TLC

VARIABLES
    eq_choice,        \* text of the equation combobox (eq_choice.get())
    var_choice,       \* text of the variable combobox (var_choice.get())
    var_values,       \* var_choice['values'], the dropdown list
    entries_defined,  \* whether the global name input_entries is bound
    input_entries,    \* the dict, in insertion order: <<[var, text, live]>>
    output_label,     \* what output_label displays
    shown_root,       \* history: the root the displayed text was computed from
    var_since_eq,     \* history: on_variable_selected completed after the
                      \* most recent on_equation_selected
    last,             \* what the most recent event did (dialog / exception)
    typed             \* how many times a combobox text was typed over

vars == <<eq_choice, var_choice, var_values, entries_defined, input_entries,
          output_label, shown_root, var_since_eq, last, typed>>

-----------------------------------------------------------------------------
(* Bounds of the model *)

\* sp.solve returns a list of roots; the model lets it hold up to MaxRoots.
MaxRoots == 2

\* The user types over the text of a combobox at most MaxTyped times.
MaxTyped == 1

-----------------------------------------------------------------------------
(* The equation catalog *)

DensityId == "Density (rho)"
NitraminesId == "Impact sensitivity (h50) - Nitramines"
SublimationId == "Heat of sublimation (dHsub)"

equations ==
    (DensityId :>
        [expr |-> "0.9183 * M / V001 + 0.0028 * nusigtot2 + 0.0443",
         variables |-> <<"rho", "M", "V001", "nusigtot2">>,
         units |-> ("rho" :> "g/cm3") @@ ("M" :> "g/mol")
                   @@ ("V001" :> "cm3/mol") @@ ("nusigtot2" :> "kcal2/mol2")])
    @@
    (NitraminesId :>
        [expr |-> "-0.0064 * sig_p2 + 241.42 * nu - 3.43",
         variables |-> <<"h50", "sig_p2", "nu">>,
         units |-> ("h50" :> "cm") @@ ("sig_p2" :> "kcal2/mol2")
                   @@ ("nu" :> "")])
    @@
    (SublimationId :>
        [expr |-> "0.000267 * A**2 + 1.650087 * sqrt(nusigtot2) + 2.966078",
         variables |-> <<"dHsub", "A", "nusigtot2">>,
         units |-> ("dHsub" :> "kcal/mol") @@ ("A" :> "A2")
                   @@ ("nusigtot2" :> "kcal2/mol2")])

Range(s) == {s[i] : i \in 1..Len(s)}

\* var_display: variable name -> display name (only the catalog's names that
\* occur in the modelled entries; "nu" has no entry, as in the source).
var_display ==
    ("nusigtot2" :> "nusig_tot^2") @@ ("V001" :> "V(0.001)")
    @@ ("sig_p2" :> "sig+^2") @@ ("rho" :> "rho") @@ ("dHsub" :> "dHsub")
    @@ ("h50" :> "h_50") @@ ("M" :> "M") @@ ("A" :> "A")

\* var_display.get(v, v)
var_display_get(v) == IF v \in DOMAIN var_display THEN var_display[v] ELSE v

\* pretty_to_var = {v: k for k, v in var_display.items()}
pretty_to_var ==
    [p \in {var_display[k] : k \in DOMAIN var_display} |->
        CHOOSE k \in DOMAIN var_display : var_display[k] = p]

\* pretty_to_var.get(selected_pretty, selected_pretty)
pretty_to_var_get(p) == IF p \in DOMAIN pretty_to_var THEN pretty_to_var[p] ELSE p

\* units_dict.get(var, '')
units_get(eq_name, v) ==
    IF v \in DOMAIN equations[eq_name].units
    THEN equations[eq_name].units[v] ELSE ""

-----------------------------------------------------------------------------
(* Entry texts and float() *)

\* The texts a user types into an Entry, as character sequences.  A new
\* tk.Entry holds the empty text.
EmptyText == <<>>
Texts ==
    { EmptyText,
      <<"a", "b", "c">>,
      <<"i", "n", "f">>,
      <<"n", "a", "n">>,
      <<"1", "0", "0">>,
      <<"5", "0">>,
      <<"2", ".", "0">> }

Digits == {"0", "1", "2", "3", "4", "5", "6", "7", "8", "9"}

DigitVal(c) ==
    CASE c = "0" -> 0 [] c = "1" -> 1 [] c = "2" -> 2 [] c = "3" -> 3
      [] c = "4" -> 4 [] c = "5" -> 5 [] c = "6" -> 6 [] c = "7" -> 7
      [] c = "8" -> 8 [] c = "9" -> 9

\* Numbers: a finite non-negative rational n/d, or a non-finite value.
RECURSIVE Gcd(_, _)
Gcd(a, b) == IF b = 0 THEN a ELSE Gcd(b, a % b)

\* n/d in lowest terms (d > 0).
Fin(n, d) ==
    LET g == Gcd(n, d)
    IN  [k |-> "fin", n |-> n \div g, d |-> d \div g]
Inf == [k |-> "inf", n |-> 0, d |-> 1]
NaN == [k |-> "nan", n |-> 0, d |-> 1]

RECURSIVE DecimalFrom(_, _, _, _, _)
\* Reads t[i..] as digits with at most one point; n/d is the value read so
\* far, d being multiplied by ten for every digit after the point (seen).
DecimalFrom(t, i, n, d, seen) ==
    IF i > Len(t) THEN [ok |-> TRUE, val |-> Fin(n, d)]
    ELSE IF t[i] = "."
         THEN IF seen THEN [ok |-> FALSE, val |-> NaN]
              ELSE DecimalFrom(t, i + 1, n, d, TRUE)
         ELSE IF t[i] \notin Digits THEN [ok |-> FALSE, val |-> NaN]
              ELSE DecimalFrom(t, i + 1, n * 10 + DigitVal(t[i]),
                               IF seen THEN d * 10 ELSE d, seen)

\* float(val) on the unsigned fragment of Python's float grammar that the
\* model's texts use: "nan", "inf", or digits with an optional point and at
\* least one digit.  ok = FALSE is ValueError.
float(t) ==
    IF t = <<"n", "a", "n">> THEN [ok |-> TRUE, val |-> NaN]
    ELSE IF t = <<"i", "n", "f">> THEN [ok |-> TRUE, val |-> Inf]
    ELSE IF \A i \in 1..Len(t) : t[i] \notin Digits
         THEN [ok |-> FALSE, val |-> NaN]
         ELSE DecimalFrom(t, 1, 0, 1, FALSE)

-----------------------------------------------------------------------------
(* Evaluation of the Density expression and the .4f format *)

\* Arithmetic on non-negative extended values, as evalf reduces them.
Mul(a, b) ==
    IF a.k = "nan" \/ b.k = "nan" THEN NaN
    ELSE IF a.k = "inf" \/ b.k = "inf"
         THEN IF (a.k = "fin" /\ a.n = 0) \/ (b.k = "fin" /\ b.n = 0)
              THEN NaN ELSE Inf
         ELSE Fin(a.n * b.n, a.d * b.d)

Div(a, b) ==
    IF a.k = "nan" \/ b.k = "nan" THEN NaN
    ELSE IF b.k = "inf" THEN (IF a.k = "inf" THEN NaN ELSE Fin(0, 1))
    ELSE IF a.k = "inf" THEN Inf
    ELSE IF b.n = 0 THEN (IF a.n = 0 THEN NaN ELSE Inf)
    ELSE Fin(a.n * b.d, a.d * b.n)

Add(a, b) ==
    IF a.k = "nan" \/ b.k = "nan" THEN NaN
    ELSE IF a.k = "inf" \/ b.k = "inf" THEN Inf
    ELSE LET g == Gcd(a.d, b.d)
         IN  Fin(a.n * (b.d \div g) + b.n * (a.d \div g), (a.d \div g) * b.d)

\* Coefficients of the Density expression, in units of 1/CoefScale.
CoefScale == 10000
CoefMoverV == 9183
CoefNuSigma == 28
CoefOffset == 443

DensityNoOffset(subs) ==
    Add(Div(Mul(Fin(CoefMoverV, CoefScale), subs["M"]), subs["V001"]),
        Mul(Fin(CoefNuSigma, CoefScale), subs["nusigtot2"]))

\* "0.9183 * M / V001 + 0.0028 * nusigtot2 + 0.0443"
DensityExpr(subs) ==
    Add(Add(Div(Mul(Fin(CoefMoverV, CoefScale), subs["M"]), subs["V001"]),
            Mul(Fin(CoefNuSigma, CoefScale), subs["nusigtot2"])),
        Fin(CoefOffset, CoefScale))

\* The places of the result format "{result:.4f}".
FormatPlaces == 4

RECURSIVE Places(_, _, _, _)
\* Long division: `places` more decimal digits of rem/d appended to q.
Places(q, rem, d, places) ==
    IF places = 0 THEN [q |-> q, rem |-> rem]
    ELSE Places(q * 10 + ((rem * 10) \div d), (rem * 10) % d, d, places - 1)

\* A finite value n/d formatted with .4f: the number of 1e-4 units, the
\* digits after the fourth rounded half to even.
Format4f(v) ==
    LET p == Places(v.n \div v.d, v.n % v.d, v.d, FormatPlaces)
    IN  IF 2 * p.rem > v.d THEN p.q + 1
        ELSE IF 2 * p.rem = v.d THEN p.q + (p.q % 2)
        ELSE p.q

-----------------------------------------------------------------------------
(* sp.solve, evalf and the display of the result *)

\* A root sp.solve reports: the idx-th root of "variables[0] = expr" solved
\* for target.  Solving for variables[0] itself gives the expression.
Root(eq_name, target_var, idx) ==
    [eq |-> eq_name, target |-> target_var, idx |-> idx]
NoRoot == Root("", "", 0)

IsExprRoot(root) == root.target = equations[root.eq].variables[1]

\* The symbols a root is written in: every variable but the target.
FreeSymbols(root) == Range(equations[root.eq].variables) \ {root.target}

\* sp.solve(sp.Eq(symbols[vars_list[0]], expr), symbols[target_var]): the
\* lists it may return.  For variables[0] the list holds the expression and
\* nothing else; for another target its length is sympy's to decide.
solve(eq_name, target_var) ==
    IF target_var = equations[eq_name].variables[1]
    THEN { <<Root(eq_name, target_var, 1)>> }
    ELSE { [i \in 1..n |-> Root(eq_name, target_var, i)] : n \in 0..MaxRoots }

LastRoot(sol) == sol[Len(sol)]

\* solution = sol[0]
FirstRoot(sol) == sol[1]

\* Results of solution.evalf(subs=subs): a value (fin, inf, nan), an
\* expression that still holds symbols (sym), a finite value the model does
\* not compute (abs), or no real value at all (fail: evalf raised, or the
\* value is complex).
Symbolic == [k |-> "sym", n |-> 0, d |-> 1]
Abstract == [k |-> "abs", n |-> 0, d |-> 1]
Failed == [k |-> "fail", n |-> 0, d |-> 1]

evalf(solution, subs) ==
    IF ~(FreeSymbols(solution) \subseteq DOMAIN subs) THEN {Symbolic}
    ELSE IF solution.eq = DensityId /\ IsExprRoot(solution)
         THEN {DensityExpr(subs)}
         ELSE {Abstract, Failed}

\* Whether f"{result:.4f}" yields text: it raises for an expression with
\* symbols and for sympy's nan and infinities, which are not Floats.
Formattable(result) == result.k \in {"fin", "abs"}

NoValue == [k |-> "none", v |-> 0]
FormattedValue(result) ==
    IF result.k = "fin" THEN [k |-> "fix4", v |-> Format4f(result)]
    ELSE [k |-> "abs", v |-> 0]

\* output_label's text: "" or f"{pretty_target} = {result:.4f} {unit}".
EmptyLabel == [name |-> "", value |-> NoValue, unit |-> ""]
LabelText(pretty_target, result, unit) ==
    [name |-> pretty_target, value |-> FormattedValue(result), unit |-> unit]

OutputWrittenBeforeFormat(result, pretty_target, unit, old) ==
    IF Formattable(result) THEN LabelText(pretty_target, result, unit)
    ELSE [name |-> pretty_target, value |-> NoValue, unit |-> unit]

\* The try block of calculate: the label is configured only when evalf and
\* the format have both returned.
OutputAfterEvaluation(result, pretty_target, unit, old) ==
    IF Formattable(result) THEN LabelText(pretty_target, result, unit)
    ELSE old

-----------------------------------------------------------------------------
(* The loop of calculate over input_entries *)

NoSubs == [v \in {} |-> NaN]

RECURSIVE CollectFrom(_, _, _)
\* for var, ent in input_entries.items(): ent.get() raises TclError on a
\* destroyed widget; float(val) raising ends the loop with the dialog.
CollectFrom(entries, i, subs) ==
    IF i > Len(entries) THEN [status |-> "ok", var |-> "", subs |-> subs]
    ELSE IF ~entries[i].live
         THEN [status |-> "TclError", var |-> entries[i].var, subs |-> subs]
         ELSE IF ~float(entries[i].text).ok
              THEN [status |-> "invalid", var |-> entries[i].var, subs |-> subs]
              ELSE CollectFrom(entries, i + 1,
                       (entries[i].var :> float(entries[i].text).val) @@ subs)

RECURSIVE CollectAllThenReport(_, _, _, _)
\* The loop, had it gone on after a bad field and reported the last one.
CollectAllThenReport(entries, i, subs, bad) ==
    IF i > Len(entries)
    THEN IF bad = "" THEN [status |-> "ok", var |-> "", subs |-> subs]
         ELSE [status |-> "invalid", var |-> bad, subs |-> subs]
    ELSE IF ~entries[i].live
         THEN [status |-> "TclError", var |-> entries[i].var, subs |-> subs]
         ELSE IF ~float(entries[i].text).ok
              THEN CollectAllThenReport(entries, i + 1, subs, entries[i].var)
              ELSE CollectAllThenReport(entries, i + 1,
                       (entries[i].var :> float(entries[i].text).val) @@ subs,
                       bad)

CollectReportingLast(entries) == CollectAllThenReport(entries, 1, NoSubs, "")

CollectInputs(entries) == CollectFrom(entries, 1, NoSubs)

-----------------------------------------------------------------------------
(* What an event did *)

\* op: the event; outcome: "ok", a dialog ("NoSolution", "InputError",
\* "EvalError") or an exception that leaves the callback ("KeyError",
\* "NameError", "TclError"); var: the variable an Input Error dialog names;
\* parsed .. wrote: the steps of calculate that were started; nroots: the
\* length of the list sp.solve returned (0 when it was not called).
Event(op, outcome) ==
    [op |-> op, outcome |-> outcome, var |-> "", parsed |-> FALSE,
     solved |-> FALSE, collected |-> FALSE, evaluated |-> FALSE,
     wrote |-> FALSE, nroots |-> 0]

-----------------------------------------------------------------------------
(* Initial state: the module was loaded and the window built *)

Init ==
    /\ eq_choice = ""
    /\ var_choice = ""
    /\ var_values = <<>>
    /\ entries_defined = FALSE
    /\ input_entries = <<>>
    /\ output_label = EmptyLabel
    /\ shown_root = NoRoot
    /\ var_since_eq = FALSE
    /\ last = Event("init", "ok")
    /\ typed = 0

-----------------------------------------------------------------------------
(* on_equation_selected *)

KeepVarChoice == var_choice

\* var_choice.set('')
ResetVarChoice == ""

KeepOutput == output_label

\* output_label.config(text="")
ClearedOutput == EmptyLabel

\* for widget in input_frame.winfo_children(): widget.destroy()
DestroyChildren(entries) ==
    [i \in 1..Len(entries) |-> [entries[i] EXCEPT !.live = FALSE]]

\* [var_display.get(v, v) for v in vars_list]
pretty_vars_list(vars_list) ==
    [i \in 1..Len(vars_list) |-> var_display_get(vars_list[i])]

\* The user picks an entry of the equation dropdown, whose values are the
\* catalog's keys: the combobox takes the text and the callback runs.  (The
\* rendering of the equation image between the two halves is left out.)
on_equation_selected ==
    \E picked \in DOMAIN equations :
        LET eq_name == picked
            vars_list == equations[eq_name].variables
        IN  /\ eq_choice' = picked
            /\ var_values' = pretty_vars_list(vars_list)
            /\ var_choice' = ResetVarChoice
            /\ input_entries' = DestroyChildren(input_entries)
            /\ output_label' = ClearedOutput
            /\ shown_root' = (IF ClearedOutput = EmptyLabel THEN NoRoot
                              ELSE shown_root)
            /\ var_since_eq' = FALSE
            /\ last' = Event("on_equation_selected", "ok")
            /\ UNCHANGED <<entries_defined, typed>>

-----------------------------------------------------------------------------
(* on_variable_selected *)

RECURSIVE EntriesFrom(_, _, _, _)
\* for var in vars_list: if var != target_var: ... input_entries[var] = ent
EntriesFrom(eq_name, vars_list, i, target_var) ==
    IF i > Len(vars_list) THEN <<>>
    ELSE IF vars_list[i] # target_var
         THEN <<[var |-> vars_list[i], text |-> EmptyText, live |-> TRUE,
                 eq |-> eq_name]>>
              \o EntriesFrom(eq_name, vars_list, i + 1, target_var)
         ELSE EntriesFrom(eq_name, vars_list, i + 1, target_var)

\* The user picks an entry of the variable dropdown: the combobox takes the
\* text and the callback runs, reading the equation combobox as it is now.
on_variable_selected ==
    \E j \in 1..Len(var_values) :
        LET eq_name == eq_choice
            selected_pretty == var_values[j]
            target_var == pretty_to_var_get(selected_pretty)
        IN  /\ var_choice' = selected_pretty
            /\ IF eq_name \notin DOMAIN equations
               THEN /\ last' = Event("on_variable_selected", "KeyError")
                    /\ UNCHANGED <<entries_defined, input_entries, var_since_eq>>
               ELSE /\ entries_defined' = TRUE
                    /\ input_entries' =
                           EntriesFrom(eq_name, equations[eq_name].variables,
                                       1, target_var)
                    /\ var_since_eq' = TRUE
                    /\ last' = Event("on_variable_selected", "ok")
            /\ UNCHANGED <<eq_choice, var_values, output_label, shown_root, typed>>

-----------------------------------------------------------------------------
(* calculate *)

\* A way out of calculate that touches no widget.
Leave(ev) ==
    /\ last' = ev
    /\ UNCHANGED <<eq_choice, var_choice, var_values, entries_defined,
                   input_entries, output_label, shown_root, var_since_eq, typed>>

calculate ==
    LET eq_name == eq_choice
        selected_pretty == var_choice
        target_var == pretty_to_var_get(selected_pretty)
        ev == Event("calculate", "ok")
    IN
    IF eq_name \notin DOMAIN equations
    THEN \* equations[eq_name]: KeyError
         Leave([ev EXCEPT !.outcome = "KeyError"])
    ELSE
    LET vars_list == equations[eq_name].variables
        unit == units_get(eq_name, target_var)
    IN
    IF target_var \notin Range(vars_list)
    THEN \* symbols[target_var]: KeyError, after sympify
         Leave([ev EXCEPT !.outcome = "KeyError", !.parsed = TRUE])
    ELSE
    \E sol \in solve(eq_name, target_var) :
    LET ev1 == [ev EXCEPT !.parsed = TRUE, !.solved = TRUE, !.nroots = Len(sol)]
    IN
    IF sol = <<>>
    THEN Leave([ev1 EXCEPT !.outcome = "NoSolution"])
    ELSE
    LET solution == FirstRoot(sol)
        ev2 == [ev1 EXCEPT !.collected = TRUE]
    IN
    IF ~entries_defined
    THEN \* input_entries: NameError
         Leave([ev2 EXCEPT !.outcome = "NameError"])
    ELSE
    LET got == CollectInputs(input_entries)
    IN
    IF got.status = "TclError"
    THEN Leave([ev2 EXCEPT !.outcome = "TclError"])
    ELSE IF got.status = "invalid"
    THEN Leave([ev2 EXCEPT !.outcome = "InputError", !.var = got.var])
    ELSE
    \E result \in evalf(solution, got.subs) :
    LET pretty_target == var_display_get(target_var)
        shown == OutputAfterEvaluation(result, pretty_target, unit, output_label)
        ev3 == [ev2 EXCEPT !.evaluated = TRUE]
    IN  /\ output_label' = shown
        /\ shown_root' = (IF shown # output_label \/ Formattable(result)
                          THEN solution ELSE shown_root)
        /\ last' = IF Formattable(result)
                   THEN [ev3 EXCEPT !.wrote = TRUE]
                   ELSE [ev3 EXCEPT !.outcome = "EvalError"]
        /\ UNCHANGED <<eq_choice, var_choice, var_values, entries_defined,
                       input_entries, var_since_eq, typed>>

-----------------------------------------------------------------------------
(* The user's typing *)

\* Texts typed into the equation combobox, which is not read-only.
TypedEquations == {DensityId, SublimationId, "no such equation"}

\* Texts typed into the variable combobox: display names, a name as the
\* catalog spells it, and a text that names nothing.
TypedVariables == {"M", "V(0.001)", "V001", "no such variable"}

type_equation ==
    \E t \in TypedEquations :
        /\ typed < MaxTyped
        /\ t # eq_choice
        /\ eq_choice' = t
        /\ typed' = typed + 1
        /\ last' = Event("type_equation", "ok")
        /\ UNCHANGED <<var_choice, var_values, entries_defined, input_entries,
                       output_label, shown_root, var_since_eq>>

type_variable ==
    \E t \in TypedVariables :
        /\ typed < MaxTyped
        /\ t # var_choice
        /\ var_choice' = t
        /\ typed' = typed + 1
        /\ last' = Event("type_variable", "ok")
        /\ UNCHANGED <<eq_choice, var_values, entries_defined, input_entries,
                       output_label, shown_root, var_since_eq>>

\* Texts typed into an Entry in the specifications of the whole window.
TypedTexts ==
    { EmptyText, <<"a", "b", "c">>, <<"i", "n", "f">>, <<"1", "0", "0">> }

\* Typing into an Entry that is on screen.
type_entry ==
    \E i \in 1..Len(input_entries), t \in TypedTexts :
        /\ input_entries[i].live
        /\ t # input_entries[i].text
        /\ input_entries' = [input_entries EXCEPT ![i].text = t]
        /\ last' = Event("type_entry", "ok")
        /\ UNCHANGED <<eq_choice, var_choice, var_values, entries_defined,
                       output_label, shown_root, var_since_eq, typed>>

-----------------------------------------------------------------------------
(* Specifications *)

Next ==
    \/ on_equation_selected
    \/ on_variable_selected
    \/ calculate
    \/ type_equation
    \/ type_variable
    \/ type_entry

Spec == Init /\ [][Next]_vars

\* The dropdowns, the entries and the button only: nothing is typed into the
\* comboboxes.
NextDropdown ==
    \/ on_equation_selected
    \/ on_variable_selected
    \/ calculate
    \/ type_entry

SpecDropdown == Init /\ [][NextDropdown]_vars

\* The Density equation with rho selected and a text in each of its three
\* entries, and the Calculate button.
InitDensity ==
    /\ eq_choice = DensityId
    /\ var_choice = var_display_get("rho")
    /\ var_values = pretty_vars_list(equations[DensityId].variables)
    /\ entries_defined = TRUE
    /\ \E tM \in Texts, tV \in Texts, tS \in Texts :
           input_entries =
               [EntriesFrom(DensityId, equations[DensityId].variables, 1, "rho")
                    EXCEPT ![1].text = tM, ![2].text = tV, ![3].text = tS]
    /\ output_label = EmptyLabel
    /\ shown_root = NoRoot
    /\ var_since_eq = TRUE
    /\ last = Event("type_entry", "ok")
    /\ typed = 0

NextDensity == calculate

SpecDensity == InitDensity /\ [][NextDensity]_vars

-----------------------------------------------------------------------------
(* Properties *)

target_now == pretty_to_var_get(var_choice)
EntryKeys == {input_entries[i].var : i \in 1..Len(input_entries)}
Offending(i) == ~float(input_entries[i].text).ok
AllLive == \A i \in 1..Len(input_entries) : input_entries[i].live

\* C1: whenever calculate reaches the step that collects the inputs, the
\* keys of input_entries are exactly the selected equation's variables
\* without the selected target variable.
C1_InputKeysMatchSelection ==
    (last.op = "calculate" /\ last.collected) =>
        /\ entries_defined
        /\ EntryKeys = Range(equations[eq_choice].variables) \ {target_now}

\* C2: calculate with a target variable that is not one of the selected
\* equation's variables ends with an input-validation error shown to the
\* user, before the expression is parsed or solved.
C2_UnknownTargetIsInputError ==
    (/\ last.op = "calculate"
     /\ eq_choice \in DOMAIN equations
     /\ target_now \notin Range(equations[eq_choice].variables)) =>
        /\ last.outcome = "InputError"
        /\ ~last.parsed
        /\ ~last.solved

\* C3: a callback that runs while the equation combobox holds no catalog id
\* ends with an unknown-equation failure that is reported, not with an
\* exception that leaves the callback.
C3_UnknownEquationIsReported ==
    (/\ last.op \in {"calculate", "on_variable_selected", "on_equation_selected"}
     /\ eq_choice \notin DOMAIN equations) =>
        last.outcome = "UnknownEquationError"

\* C4: when calculate reads the entries and one of them holds a text that
\* is no number (or is empty), it ends with the Input Error dialog naming
\* the first such variable in input_entries order, evaluates nothing and
\* leaves the output label alone.
C4_FirstInvalidInputReported ==
    (/\ last.op = "calculate"
     /\ last.collected
     /\ entries_defined
     /\ AllLive
     /\ \E i \in 1..Len(input_entries) : Offending(i)) =>
        /\ last.outcome = "InputError"
        /\ \E i \in 1..Len(input_entries) :
               /\ Offending(i)
               /\ \A j \in 1..(i - 1) : ~Offending(j)
               /\ last.var = input_entries[i].var
        /\ ~last.evaluated
        /\ ~last.wrote

C4_Witness ==
    /\ last.op = "calculate"
    /\ last.outcome = "InputError"
    /\ Len(input_entries) >= 3
    /\ ~Offending(1)
    /\ Offending(2)
    /\ Offending(3)
    /\ last.var = input_entries[2].var

\* C5: a calculate that read a non-finite number (nan, inf) from an entry
\* ends with an error, and the output label never shows a non-finite value.
C5_NonFiniteRejected ==
    /\ (/\ last.op = "calculate"
        /\ last.collected
        /\ \E i \in 1..Len(input_entries) :
               /\ float(input_entries[i].text).ok
               /\ float(input_entries[i].text).val.k \in {"inf", "nan"}) =>
           last.outcome # "ok"
    /\ output_label.value.k \notin {"inf", "nan"}

\* C6: a calculate that ends in a failure changes nothing (output label,
\* input_entries and its fields, both comboboxes), and a calculate that
\* writes the output label writes a complete result: name, value and the
\* target's unit.
C6_FailureLeavesStateUnchanged ==
    [][ /\ (last'.op = "calculate" /\ last'.outcome # "ok") =>
               UNCHANGED <<eq_choice, var_choice, var_values, entries_defined,
                           input_entries, output_label>>
        /\ (last'.op = "calculate" /\ output_label' # output_label) =>
               /\ last'.outcome = "ok"
               /\ output_label'.name = var_display_get(target_now)
               /\ output_label'.value # NoValue
               /\ output_label'.unit = units_get(eq_choice, target_now)
      ]_vars

C6_Witness ==
    /\ last.op = "calculate"
    /\ last.outcome = "EvalError"
    /\ last.evaluated
    /\ output_label # EmptyLabel

\* C7 (as amended): Density with M = 100, V001 = 50, nusigtot2 = 2.0 solved
\* for rho displays 1.8865 g/cm3 at four decimals.
DensityExampleRead ==
    /\ last.op = "calculate"
    /\ eq_choice = DensityId
    /\ target_now = "rho"
    /\ Len(input_entries) = 3
    /\ input_entries[1].text = <<"1", "0", "0">>
    /\ input_entries[2].text = <<"5", "0">>
    /\ input_entries[3].text = <<"2", ".", "0">>
    /\ AllLive

C7_DensityExampleIs18865 ==
    DensityExampleRead =>
        /\ last.outcome = "ok"
        /\ output_label =
               [name |-> "rho", value |-> [k |-> "fix4", v |-> 18865],
                unit |-> "g/cm3"]

C7_Witness == DensityExampleRead /\ last.outcome = "ok" /\ last.wrote

\* C7 (as claimed): the same example displays 1.8875 g/cm3.
C7_DensityExampleIs18875 ==
    DensityExampleRead =>
        /\ last.outcome = "ok"
        /\ output_label =
               [name |-> "rho", value |-> [k |-> "fix4", v |-> 18875],
                unit |-> "g/cm3"]

\* C8: when sp.solve returns no root, calculate ends with the no-solution
\* dialog before it reads an entry or evaluates anything; when it returns
\* roots, calculate goes on to the entries and what it displays is the
\* evaluation of the first root, however many there are.
C8_FirstRootOrNoSolution ==
    (last.op = "calculate" /\ last.solved) =>
        /\ (last.nroots = 0) =>
               /\ last.outcome = "NoSolution"
               /\ ~last.collected
               /\ ~last.evaluated
               /\ ~last.wrote
        /\ (last.nroots >= 1) =>
               /\ last.outcome # "NoSolution"
               /\ last.collected
               /\ last.wrote => shown_root = Root(eq_choice, target_now, 1)

C8_Witness ==
    /\ last.op = "calculate"
    /\ last.nroots >= 2
    /\ last.wrote
    /\ output_label # EmptyLabel

\* C9 (as claimed): with dropdown selections and calculate only, a non-empty
\* output label shows a result computed for the selected equation and the
\* selected target variable.
C9_LabelIsForSelection ==
    (output_label # EmptyLabel) =>
        /\ shown_root.eq = eq_choice
        /\ shown_root.target = target_now

\* C9 (as amended): with dropdown selections and calculate only, a non-empty
\* output label shows a result computed for the selected equation and one of
\* its variables, and names that variable; the variable selected now may be
\* another one.
C9_LabelIsForEquation ==
    (output_label # EmptyLabel) =>
        /\ shown_root.eq = eq_choice
        /\ shown_root.target \in Range(equations[eq_choice].variables)
        /\ output_label.name = var_display_get(shown_root.target)

C9_Witness ==
    /\ output_label # EmptyLabel
    /\ shown_root.eq = eq_choice
    /\ shown_root.target # target_now
    /\ last.op = "on_variable_selected"

\* C10: with dropdown selections and calculate only, calculate reaches the
\* loop over input_entries only if on_variable_selected has run since the
\* last on_equation_selected; input_entries is then defined and each of its
\* widgets is alive and was made for the selected equation.
C10_EntriesLiveWhenRead ==
    (last.op = "calculate" /\ last.collected) =>
        /\ var_since_eq
        /\ entries_defined
        /\ \A i \in 1..Len(input_entries) :
               /\ input_entries[i].live
               /\ input_entries[i].eq = eq_choice

C10_Witness ==
    /\ last.op = "calculate"
    /\ last.collected
    /\ last.outcome = "ok"
    /\ var_since_eq

=============================================================================
